---- MODULE Spec2Model ----
(***************************************************************************)
(* easy-a2a: the executor adapter (src/src/executor.ts, convertExecutor)   *)
(* and the pipeline builder (src/src/builder.ts, OpenaiEngineBuilder).     *)
(*                                                                         *)
(* The adapter turns a push-style AgentExecutor into a pull-style async    *)
(* generator.  One invocation of the engine is modelled per slot of Inv:   *)
(* the generator object, its bus and queue, the executor's execute         *)
(* coroutine and the consumer that pulls.  The event bus and the event     *)
(* queue are the classes of @a2a-js/sdk/server the adapter instantiates    *)
(* (DefaultExecutionEventBus, ExecutionEventQueue); their behaviour is     *)
(* written down here as the adapter consumes it.                           *)
(***************************************************************************)
EXTENDS Integers, Sequences, FiniteSets, TLC

\* ------------------------------------------------------------- bounds
\* events the free executors publish in one run
MaxPub == 3
\* events a free executor publishes synchronously inside execute()
MaxSync == 2
\* cancel signals fired in one run
MaxCancel == 1
\* builder objects made in one run
MaxBuilders == 4
\* the same, for the specification with two interleaved invocations
MaxPubTwo == 1
MaxSyncTwo == 0
MaxCancelTwo == 1

\* the loop bound of TestExecutor.execute
TestSteps == 5

Inv == {1, 2}
Buses == {1, 2}

VARIABLES
  executor,        \* the executor wrapped by convertExecutor: "test" | "free"
  slots,           \* the invocations this run may make
  cap,             \* the bounds this run works under
  pc,              \* per invocation: where the engine's generator stands
  bus,             \* per invocation: its eventBus (0 before it is allocated)
  nextBus,         \* allocation counter of DefaultExecutionEventBus objects
  attached,        \* per bus: the queues listening on it
  queue,           \* per invocation: its ExecutionEventQueue
  listening,       \* per invocation: the "cancel" listener is registered
  exec,            \* per invocation: the executionPromise
  execBus,         \* per invocation: the bus execute() was handed
  ti,              \* per invocation: TestExecutor's loop counter i
  cancelledTasks,  \* TestExecutor.cancelledTasks
  hookPending,     \* per invocation: a free executor's cancelTask still runs
  cancelCalls,     \* per invocation: the calls of executor.cancelTask made
  published,       \* per bus: every event published on it, in order
  finAt,           \* per bus: Len(published) at the first finished(), else -1
  yielded,         \* per invocation: the events the consumer received
  sigPre,          \* per invocation: cancel signals fired before the body ran
  sigPost,         \* per invocation: cancel signals fired after it started
  settledAt,       \* per invocation: Len(published) when execute settled, else -1
  syncAt           \* per invocation: Len(published) when the first pull reached
                   \* the queue (execute had run to its first await), else -1

adapterVars ==
  <<executor, slots, cap, pc, bus, nextBus, attached, queue, listening, exec,
    execBus, ti, cancelledTasks, hookPending, cancelCalls, published, finAt,
    yielded, sigPre, sigPost, settledAt, syncAt>>

VARIABLES
  builders,        \* the OpenaiEngineBuilder objects made so far
  arrays,          \* the step arrays allocated so far (builders hold references)
  chain,           \* per builder: the builder it was derived from (0: none) and
                   \* the steps added along its derivation, in order
  run              \* the one invocation of an agent built from a pipeline

builderVars == <<builders, arrays, chain, run>>

VARIABLES
  stepArgs,        \* the AIStepArgs the AI step was made from
  params,          \* the StepParams of its one invocation
  given,           \* the arrays the caller passed in, as they were at the call
  aipc,            \* where the step function stands
  toolOutcome,     \* how toolifyAgents ended, and the tool list it returned
  requests,        \* the requests issued to the model client, in order
  targetCalls,     \* calls made on the peer agent / relay handle
  completion,      \* the completion the model client resolved with
  output           \* what the step's promise resolved with

aiVars ==
  <<stepArgs, params, given, aipc, toolOutcome, requests, targetCalls, completion,
    output>>

vars == <<adapterVars, builderVars, aiVars>>

\* ------------------------------------------------------------- events
Submitted == [kind |-> "task", state |-> "submitted", final |-> FALSE]
Working == [kind |-> "status-update", state |-> "working", final |-> FALSE]
Artifact == [kind |-> "artifact-update", state |-> "none", final |-> FALSE]
Completed == [kind |-> "status-update", state |-> "completed", final |-> TRUE]
Canceled == [kind |-> "status-update", state |-> "canceled", final |-> TRUE]
Msg == [kind |-> "message", state |-> "none", final |-> FALSE]

FreeShapes == {Artifact, Completed, Msg}

\* An event object: its shape, plus who published it and as which publication
\* of its bus (the object's identity).
Mk(sh, i, b, n) ==
  [kind |-> sh.kind, state |-> sh.state, final |-> sh.final,
   by |-> i, on |-> b, n |-> n]

Shape(e) == [kind |-> e.kind, state |-> e.state, final |-> e.final]

\* ExecutionEventQueue.events(): the event after which the queue stops itself
Terminal(e) == e.kind = "message" \/ (e.kind = "status-update" /\ e.final)

TaskIdOf(i) == i

SeqsUpTo(S, n) == UNION {[1..k -> S] : k \in 0..n}

\* ------------------------------------------------- bus and queue (library)
\* The part of the state the executor and the bus act on, threaded through the
\* statements that run within one synchronous turn.
World ==
  [queue |-> queue, attached |-> attached, published |-> published,
   finAt |-> finAt, cancelledTasks |-> cancelledTasks]

\* closedAt records how many events its bus had seen when the queue stopped
\* (-1 while it is open); nothing reads it but the properties below.
NewQueue == [stopped |-> FALSE, buf |-> <<>>, waiting |-> FALSE, closedAt |-> -1]

\* ExecutionEventQueue.handleEvent: buffer the event and wake a waiting reader
HandleEvent(q, e) ==
  IF q.stopped THEN q
  ELSE [q EXCEPT !.buf = Append(@, e), !.waiting = FALSE]

\* ExecutionEventQueue.stop: no more events are taken, a waiting reader wakes
StopQueue(q, n) ==
  [q EXCEPT !.stopped = TRUE, !.waiting = FALSE,
            !.closedAt = IF @ < 0 THEN n ELSE @]

\* DefaultExecutionEventBus.publish(event), called by invocation i's executor
Publish(w, i, b, sh) ==
  LET e == Mk(sh, i, b, Len(w.published[b]) + 1)
  IN  [w EXCEPT
         !.published[b] = Append(@, e),
         !.queue = [j \in Inv |->
                      IF j \in w.attached[b] THEN HandleEvent(w.queue[j], e)
                      ELSE w.queue[j]]]

\* DefaultExecutionEventBus.finished(): every attached queue stops and detaches
Finished(w, b) ==
  [w EXCEPT
     !.finAt[b] = IF @ < 0 THEN Len(w.published[b]) ELSE @,
     !.queue = [j \in Inv |->
                  IF j \in w.attached[b]
                  THEN StopQueue(w.queue[j], Len(w.published[b]))
                  ELSE w.queue[j]],
     !.attached[b] = {}]

RECURSIVE PublishAll(_, _, _, _)
PublishAll(w, i, b, shs) ==
  IF shs = <<>> THEN w
  ELSE PublishAll(Publish(w, i, b, Head(shs)), i, b, Tail(shs))

\* new ExecutionEventQueue(eventBus): the constructor subscribes to the bus
ConstructQueueUnbound(w, i, b) == [w EXCEPT !.queue[i] = NewQueue]
ConstructQueue(w, i, b) ==
  [w EXCEPT !.queue[i] = NewQueue, !.attached[b] = @ \cup {i}]

\* ExecutionEventQueue.events(), from the top of its loop to where it next
\* suspends: a yield, the wait on an empty queue, or the end of the sequence.
EventsLoop(q) ==
  IF q.buf # <<>>
  THEN [q |-> [q EXCEPT !.buf = Tail(@)], pc |-> "yielded", out |-> <<Head(q.buf)>>]
  ELSE IF ~q.stopped
       THEN [q |-> [q EXCEPT !.waiting = TRUE], pc |-> "waiting", out |-> <<>>]
       ELSE [q |-> q, pc |-> "joining", out |-> <<>>]

\* events() resumed after the yield of e: a terminal event stops the queue and
\* ends the sequence, whatever is still buffered.
EventsResume(q, e, n) ==
  IF Terminal(e)
  THEN [q |-> StopQueue(q, n), pc |-> "joining", out |-> <<>>]
  ELSE EventsLoop(q)

\* ---------------------------------------------------------- the executors
\* TestExecutor.execute, one pass of its for loop (k = TestSteps: the code
\* after the loop), up to the await that ends the pass.
TestIter(w, i, b, k) ==
  IF k >= TestSteps
  THEN [w |-> Finished(Publish(w, i, b, Completed), b), st |-> "fulfilled", ti |-> k]
  ELSE IF TaskIdOf(i) \in w.cancelledTasks
       THEN [w |-> [Finished(Publish(w, i, b, Canceled), b)
                      EXCEPT !.cancelledTasks = @ \ {TaskIdOf(i)}],
             st |-> "fulfilled", ti |-> k]
       ELSE [w |-> CASE k = 1 -> Publish(w, i, b, Working)
                     [] k = 2 -> Publish(w, i, b, Artifact)
                     [] OTHER -> w,
             st |-> "running", ti |-> k + 1]

\* TestExecutor.execute up to its first await
TestExecuteSync(w, i, b) == TestIter(Publish(w, i, b, Submitted), i, b, 0)

\* executor.execute(requestContext, eventBus) up to its first await; a free
\* executor publishes the events of pre before it first suspends
Execute(w, i, b, pre) ==
  IF executor = "test" THEN TestExecuteSync(w, i, b)
  ELSE [w |-> PublishAll(w, i, b, pre), st |-> "running", ti |-> 0]

\* what the run has used of its bounds
TotalPublished == Len(published[1]) + Len(published[2])
TotalSignals == sigPre[1] + sigPre[2] + sigPost[1] + sigPost[2]

Min(a, b) == IF a < b THEN a ELSE b

\* the value of settledAt once execute has run to state st on bus b
SettledAt(st, w, b) == IF st = "running" THEN -1 ELSE Len(w.published[b])

SyncPrefixes ==
  IF executor = "free"
  THEN SeqsUpTo(FreeShapes, Min(cap.sync, cap.pub - TotalPublished))
  ELSE {<<>>}

\* ------------------------------------------------------------ the adapter
\* new DefaultExecutionEventBus(): a fresh object on every invocation
NewBusShared(n) == 1
NewBus(n) == n + 1

\* The engine body from the queue's construction to the call of execute:
\* the queue is bound to the bus before the executor starts.
StartBodyLate(w, i, b, pre) ==
  LET r == Execute(w, i, b, pre)
  IN  [r EXCEPT !.w = ConstructQueue(r.w, i, b)]
StartBody(w, i, b, pre) == Execute(ConstructQueue(w, i, b), i, b, pre)

\* await executionPromise: what the generator does with the promise
AwaitExecutionNone(p) == "done"
AwaitExecutionCaught(p) == IF p = "running" THEN "pending" ELSE "done"
AwaitExecution(p) ==
  CASE p = "fulfilled" -> "done"
    [] p = "rejected" -> "failed"
    [] OTHER -> "pending"

\* the arguments the cancel listener hands to executor.cancelTask
CancelArgsOtherBus(i) == [task |-> TaskIdOf(i), bus |-> (bus[i] % 2) + 1]
CancelArgs(i) == [task |-> TaskIdOf(i), bus |-> bus[i]]

\* executor.cancelTask(taskId, eventBus), its synchronous part
CancelTask(i, call) ==
  /\ cancelCalls' = [cancelCalls EXCEPT ![i] = Append(@, call)]
  /\ IF executor = "test"
     THEN /\ cancelledTasks' = cancelledTasks \cup {call.task}
          /\ UNCHANGED hookPending
     ELSE /\ hookPending' = [hookPending EXCEPT ![i] = TRUE]
          /\ UNCHANGED cancelledTasks

\* the listener registered on context.events for "cancel"
CancelListenerSynth(i) ==
  /\ CancelTask(i, CancelArgs(i))
  /\ queue' = [queue EXCEPT ![i] = HandleEvent(@, Mk(Canceled, 0, bus[i], 0))]
CancelListener(i) ==
  /\ CancelTask(i, CancelArgs(i))
  /\ UNCHANGED queue

\* engine(context): the generator object is made, its body has not run
Call(i) ==
  /\ i \in slots
  /\ pc[i] = "idle"
  /\ pc' = [pc EXCEPT ![i] = "created"]
  /\ UNCHANGED <<builderVars, aiVars, executor, slots, cap, bus, nextBus, attached, queue, listening,
                 exec, execBus, ti, cancelledTasks, hookPending, cancelCalls,
                 published, finAt, yielded, sigPre, sigPost, settledAt, syncAt>>

\* the consumer's first next(): the body runs from its top into yield*
Start(i) ==
  /\ pc[i] = "created"
  /\ \E pre \in SyncPrefixes :
       LET b == NewBus(nextBus)
           r == StartBody(World, i, b, pre)
           g == EventsLoop(r.w.queue[i])
       IN  /\ nextBus' = b
           /\ bus' = [bus EXCEPT ![i] = b]
           /\ listening' = [listening EXCEPT ![i] = TRUE]
           /\ execBus' = [execBus EXCEPT ![i] = b]
           /\ exec' = [exec EXCEPT ![i] = r.st]
           /\ ti' = [ti EXCEPT ![i] = r.ti]
           /\ queue' = [r.w.queue EXCEPT ![i] = g.q]
           /\ attached' = r.w.attached
           /\ published' = r.w.published
           /\ finAt' = r.w.finAt
           /\ cancelledTasks' = r.w.cancelledTasks
           /\ pc' = [pc EXCEPT ![i] = g.pc]
           /\ yielded' = [yielded EXCEPT ![i] = @ \o g.out]
           /\ settledAt' = [settledAt EXCEPT ![i] = SettledAt(r.st, r.w, b)]
           /\ syncAt' = [syncAt EXCEPT ![i] = Len(r.w.published[b])]
  /\ UNCHANGED <<builderVars, aiVars, executor, slots, cap, hookPending, cancelCalls, sigPre, sigPost>>

\* a later next(): events() resumes behind its yield
Pull(i) ==
  /\ pc[i] = "yielded"
  /\ LET last == yielded[i][Len(yielded[i])]
         g == EventsResume(queue[i], last, Len(published[bus[i]]))
     IN  /\ queue' = [queue EXCEPT ![i] = g.q]
         /\ attached' = IF Terminal(last)
                        THEN [attached EXCEPT ![bus[i]] = @ \ {i}]
                        ELSE attached
         /\ pc' = [pc EXCEPT ![i] = g.pc]
         /\ yielded' = [yielded EXCEPT ![i] = @ \o g.out]
  /\ UNCHANGED <<builderVars, aiVars, executor, slots, cap, bus, nextBus, listening, exec, execBus, ti,
                 cancelledTasks, hookPending, cancelCalls, published, finAt,
                 sigPre, sigPost, settledAt, syncAt>>

\* the wait on the empty queue was resolved: events() runs on
Wake(i) ==
  /\ pc[i] = "waiting"
  /\ ~queue[i].waiting
  /\ LET g == EventsLoop(queue[i])
     IN  /\ queue' = [queue EXCEPT ![i] = g.q]
         /\ pc' = [pc EXCEPT ![i] = g.pc]
         /\ yielded' = [yielded EXCEPT ![i] = @ \o g.out]
  /\ UNCHANGED <<builderVars, aiVars, executor, slots, cap, bus, nextBus, attached, listening, exec,
                 execBus, ti, cancelledTasks, hookPending, cancelCalls, published,
                 finAt, sigPre, sigPost, settledAt, syncAt>>

\* the sequence is exhausted and the execution promise has settled
Join(i) ==
  /\ pc[i] = "joining"
  /\ AwaitExecution(exec[i]) # "pending"
  /\ pc' = [pc EXCEPT ![i] = AwaitExecution(exec[i])]
  /\ UNCHANGED <<builderVars, aiVars, executor, slots, cap, bus, nextBus, attached, queue, listening,
                 exec, execBus, ti, cancelledTasks, hookPending, cancelCalls,
                 published, finAt, yielded, sigPre, sigPost, settledAt, syncAt>>

\* context.events.emit("cancel"): heard only once the listener is registered
Cancel(i) ==
  /\ pc[i] # "idle"
  /\ TotalSignals < cap.cancel
  /\ IF pc[i] = "created"
     THEN sigPre' = [sigPre EXCEPT ![i] = @ + 1] /\ UNCHANGED sigPost
     ELSE sigPost' = [sigPost EXCEPT ![i] = @ + 1] /\ UNCHANGED sigPre
  /\ IF listening[i]
     THEN CancelListener(i)
     ELSE UNCHANGED <<queue, cancelCalls, cancelledTasks, hookPending>>
  /\ UNCHANGED <<builderVars, aiVars, executor, slots, cap, pc, bus, nextBus, attached, listening, exec,
                 execBus, ti, published, finAt, yielded, settledAt, syncAt>>

\* Sets the bus-side variables from a world value
SetWorld(w) ==
  /\ queue' = w.queue
  /\ attached' = w.attached
  /\ published' = w.published
  /\ finAt' = w.finAt
  /\ cancelledTasks' = w.cancelledTasks

\* TestExecutor: the setTimeout of one pass fired, the next pass runs
TestStep(i) ==
  /\ executor = "test"
  /\ exec[i] = "running"
  /\ LET r == TestIter(World, i, execBus[i], ti[i])
     IN  /\ SetWorld(r.w)
         /\ exec' = [exec EXCEPT ![i] = r.st]
         /\ ti' = [ti EXCEPT ![i] = r.ti]
         /\ settledAt' = [settledAt EXCEPT ![i] = SettledAt(r.st, r.w, execBus[i])]
  /\ UNCHANGED <<builderVars, aiVars, executor, slots, cap, pc, bus, nextBus, listening, execBus,
                 hookPending, cancelCalls, yielded, sigPre, sigPost, syncAt>>

\* a free executor publishes one event
FreePublish(i, sh) ==
  /\ executor = "free"
  /\ exec[i] = "running"
  /\ TotalPublished < cap.pub
  /\ SetWorld(Publish(World, i, execBus[i], sh))
  /\ UNCHANGED <<builderVars, aiVars, executor, slots, cap, pc, bus, nextBus, listening, exec, execBus,
                 ti, hookPending, cancelCalls, yielded, sigPre, sigPost, settledAt, syncAt>>

\* a free executor calls eventBus.finished()
FreeFinished(i) ==
  /\ executor = "free"
  /\ exec[i] = "running"
  /\ finAt[execBus[i]] < 0
  /\ SetWorld(Finished(World, execBus[i]))
  /\ UNCHANGED <<builderVars, aiVars, executor, slots, cap, pc, bus, nextBus, listening, exec, execBus,
                 ti, hookPending, cancelCalls, yielded, sigPre, sigPost, settledAt, syncAt>>

\* a free executor's execute returns, or throws
FreeSettle(i, how) ==
  /\ executor = "free"
  /\ exec[i] = "running"
  /\ exec' = [exec EXCEPT ![i] = how]
  /\ settledAt' = [settledAt EXCEPT ![i] = Len(published[execBus[i]])]
  /\ UNCHANGED <<builderVars, aiVars, executor, slots, cap, pc, bus, nextBus, attached, queue, listening,
                 execBus, ti, cancelledTasks, hookPending, cancelCalls, published,
                 finAt, yielded, sigPre, sigPost, syncAt>>

\* a free executor's cancelTask honours the request: it publishes the
\* canceled status on the bus it was handed and marks that bus finished
FreeHook(i) ==
  /\ executor = "free"
  /\ hookPending[i]
  /\ LET b == cancelCalls[i][Len(cancelCalls[i])].bus
     IN  SetWorld(Finished(Publish(World, i, b, Canceled), b))
  /\ hookPending' = [hookPending EXCEPT ![i] = FALSE]
  /\ UNCHANGED <<builderVars, aiVars, executor, slots, cap, pc, bus, nextBus, listening, exec, execBus,
                 ti, cancelCalls, yielded, sigPre, sigPost, settledAt, syncAt>>


\* ------------------------------------------------------------ the builder
Clients == {"openai"}
\* what createAgentArgs resolves the agents argument to
AgentConfigs == {"undefined", "relay"}

\* values a user step may forward, and the completions the model client returns
ArgSeqs == {<<"1", "2", "3">>, <<"2", "1">>}
Completions == {"completionHello", "completionNoContent"}
\* completion.choices[0].message.content
ContentOf(c) == IF c = "completionHello" THEN "Hello!" ELSE "null"

\* the options bundle of .ai(): each flag true, false or not supplied
AiOptions ==
  {[includeHistory |-> h, includeArgs |-> "undefined", includeContent |-> "undefined"] :
     h \in {"undefined", "false"}}

\* options?.flag ?? true
OrTrue(v) == IF v = "undefined" THEN TRUE ELSE v = "true"

NoSettings ==
  [includeHistory |-> FALSE, includeArgs |-> FALSE, includeContent |-> FALSE]

\* the steps a caller adds with addStep / text / data
UserSteps ==
  {[kind |-> "text", fn |-> "f1", settings |-> NoSettings, agents |-> "undefined"],
   [kind |-> "data", fn |-> "f2", settings |-> NoSettings, agents |-> "undefined"]}

\* ai(body, options): the step handed to addStep
AiStepOf(b, opt) ==
  [kind |-> "text", fn |-> "ai",
   settings |-> [includeHistory |-> OrTrue(opt.includeHistory),
                 includeArgs |-> OrTrue(opt.includeArgs),
                 includeContent |-> OrTrue(opt.includeContent)],
   agents |-> builders[b].agents]

\* aiStep's return value for the final completion c
AiStepOutputNullParts(c) == [parts |-> <<ContentOf(c)>>, args |-> <<c>>, fwd |-> TRUE]
AiStepOutputNoArgs(c) ==
  [parts |-> IF ContentOf(c) = "null" THEN <<>> ELSE <<ContentOf(c)>>,
   args |-> <<>>, fwd |-> TRUE]
AiStepOutput(c) ==
  [parts |-> IF ContentOf(c) = "null" THEN <<>> ELSE <<ContentOf(c)>>,
   args |-> <<c>>, fwd |-> TRUE]

\* what a step may return: an AI step its completion, a user step a plain
\* part or {parts, args}
StepOutputs(step) ==
  IF step.fn = "ai" THEN {AiStepOutput(c) : c \in Completions}
  ELSE {[parts |-> <<"X">>, args |-> a, fwd |-> TRUE] : a \in ArgSeqs}
         \cup {[parts |-> <<"X">>, args |-> <<>>, fwd |-> FALSE]}

\* EngineBuilder.build(): the builder's step array; 0 stands for the throw on
\* an empty list
Build(b) == IF arrays[builders[b].steps] = <<>> THEN 0 ELSE builders[b].steps

\* addStep's array handling: steps = [] or this.build(), then [...steps, step]
\* is a new array; gives the arrays afterwards and the new builder's reference
SpreadAppendInPlace(arrs, r, step) ==
  IF r = 0
  THEN [arrays |-> Append(arrs, <<step>>), ref |-> Len(arrs) + 1]
  ELSE [arrays |-> [arrs EXCEPT ![r] = Append(@, step)], ref |-> r]
SpreadAppendFront(arrs, r, step) ==
  [arrays |-> Append(arrs, <<step>> \o (IF r = 0 THEN <<>> ELSE arrs[r])),
   ref |-> Len(arrs) + 1]
SpreadAppend(arrs, r, step) ==
  [arrays |-> Append(arrs, (IF r = 0 THEN <<>> ELSE arrs[r]) \o <<step>>),
   ref |-> Len(arrs) + 1]

\* AIAgentBuilder(client, agents): a builder with no steps (the root every
\* other builder of the run derives from)
NewBuilder(c, a) ==
  /\ builders = <<>>
  /\ arrays' = Append(arrays, <<>>)
  /\ builders' = Append(builders, [client |-> c, steps |-> Len(arrays) + 1, agents |-> a])
  /\ chain' = Append(chain, [parent |-> 0, steps |-> <<>>])
  /\ UNCHANGED <<run, adapterVars, aiVars>>

\* OpenaiEngineBuilder.addStep(step)
AddStep(b, step) ==
  /\ Len(builders) < MaxBuilders
  /\ LET n == SpreadAppend(arrays, Build(b), step)
     IN  /\ arrays' = n.arrays
         /\ builders' = Append(builders,
                          [client |-> builders[b].client, steps |-> n.ref,
                           agents |-> builders[b].agents])
  /\ chain' = Append(chain, [parent |-> b, steps |-> Append(chain[b].steps, step)])
  /\ UNCHANGED <<run, adapterVars, aiVars>>

\* OpenaiEngineBuilder.ai(body, options)
Ai(b, opt) == AddStep(b, AiStepOf(b, opt))

NoRun ==
  [status |-> "none", b |-> 0, ref |-> 0, next |-> 1, args |-> <<>>,
   active |-> {}, log |-> <<>>, outs |-> <<>>]

\* createAgent(...) and one message sent to the agent: the engine gets the
\* steps of build() and starts before its first step
RunStart(b) ==
  /\ run.status = "none"
  /\ Build(b) # 0
  /\ run' = [NoRun EXCEPT !.status = "running", !.b = b, !.ref = Build(b)]
  /\ UNCHANGED <<builders, arrays, chain, adapterVars, aiVars>>

\* the engine calls the next step with the forwarded arguments
StepBegin ==
  /\ run.status = "running"
  /\ run.active = {}
  /\ run.next <= Len(arrays[run.ref])
  /\ run' = [run EXCEPT
               !.active = {run.next},
               !.log = Append(@, [idx |-> run.next, step |-> arrays[run.ref][run.next],
                                  args |-> run.args])]
  /\ UNCHANGED <<builders, arrays, chain, adapterVars, aiVars>>

\* the step's promise resolves with out; keep says what a step that returns
\* no args leaves of the forwarded arguments
StepEnd(out, keep) ==
  /\ run.status = "running"
  /\ run.active # {}
  /\ out \in StepOutputs(arrays[run.ref][run.next])
  /\ run' = [run EXCEPT
               !.active = {},
               !.outs = Append(@, out),
               !.args = IF out.fwd THEN out.args ELSE IF keep THEN @ ELSE <<>>,
               !.next = @ + 1,
               !.status = IF run.next = Len(arrays[run.ref]) THEN "completed" ELSE @]
  /\ UNCHANGED <<builders, arrays, chain, adapterVars, aiVars>>

\* the step's promise rejects: the invocation fails
StepFail ==
  /\ run.status = "running"
  /\ run.active # {}
  /\ run' = [run EXCEPT !.active = {}, !.status = "failed"]
  /\ UNCHANGED <<builders, arrays, chain, adapterVars, aiVars>>

BuilderInit ==
  /\ builders = <<>>
  /\ arrays = <<>>
  /\ chain = <<>>
  /\ run = NoRun

AllOutputs == UNION {StepOutputs(st) : st \in UserSteps} \cup {AiStepOutput(c) : c \in Completions}

NextBuilder ==
  \/ \E c \in Clients, a \in AgentConfigs : NewBuilder(c, a)
  \/ \E b \in 1..Len(builders), st \in UserSteps : AddStep(b, st)
  \/ \E b \in 1..Len(builders), opt \in AiOptions : Ai(b, opt)
  \/ \E b \in 1..Len(builders) : RunStart(b)
  \/ StepBegin
  \/ \E out \in AllOutputs, keep \in BOOLEAN : StepEnd(out, keep)
  \/ StepFail

\* ------------------------------------------------------------ the AI step
\* tool handlers the model client's runner calls in one tool-enabled run
MaxToolCalls == 1
\* entries of a task's history
MaxHist == 2

\* an absent value (undefined) and a supplied one
None == <<>>
Some(x) == <<x>>

\* a boolean setting as the caller may pass it: true, false, or not at all
Flags == {"undefined", "true", "false"}
\* what `flag ? a : b` and `!flag` make of it
Truthy(v) == v = "true"

\* a message's content is a sequence of tokens; a plain text is one token
Text(s) == <<s>>
\* JSON.stringify(args) of an array: brackets around its elements
JsonStringify(args) == <<"[">> \o args \o <<"]">>

Message(r, c) == [role |-> r, content |-> c]

\* the fixed system message that advertises the tools
AgentsMessage ==
  Message("system", Text("The assistant can call agents to help with the users request."))

\* body = { model: "gpt-4o-mini", messages: [] } when none is supplied
DefaultBody ==
  [model |-> "gpt-4o-mini", messages |-> <<>>, temperature |-> "undefined", tools |-> None]

\* ai(body: string): the prompt becomes the one system message of the body
BodyOfPrompt(p) ==
  [model |-> "gpt-4o-mini", messages |-> <<Message("system", Text(p))>>,
   temperature |-> "undefined", tools |-> None]

\* a full request body of the caller's, with fields of its own
FullBody ==
  [model |-> "gpt-4o",
   messages |-> <<Message("system", Text("Answer briefly")), Message("user", Text("earlier"))>>,
   temperature |-> "0.7", tools |-> Some(<<"caller-tool">>)]

Bodies == {None, Some(BodyOfPrompt("You are a helpful assistant.")), Some(FullBody)}

\* settings = { includeHistory: true, includeArgs: true, includeContent: true,
\* disableAgents: false } stands in only for a settings object that is absent
DefaultSettings ==
  [includeHistory |-> "true", includeArgs |-> "true", includeContent |-> "true",
   disableAgents |-> "false"]

ResolveSettings(s) == IF s = None THEN DefaultSettings ELSE s[1]

SettingsBundles ==
  {None} \cup
  {Some([includeHistory |-> h, includeArgs |-> a, includeContent |-> c, disableAgents |-> d]) :
     h \in Flags, a \in Flags, c \in Flags, d \in Flags}

\* what stepArgs.agents may hold at run time
AgentTargets == {"undefined", "relay", "service", "client", "object"}

\* toolifyAgentInstance / toolifyClient, toolifyAgentRelay: the tools' names
AgentTools == <<"message-send", "get-agent-card", "tasks-get", "tasks-cancel">>
RelayTools ==
  <<"relay-message-send", "relay-tasks-get", "relay-tasks-cancel",
    "relay-agents-get-card-all", "relay-agents-get-ids", "relay-agents-search",
    "relay-agents-get-card">>

\* toolifyAgents(agents): how the call ends (it returns a list, throws, or
\* hands back a promise that rejects), the list, and the calls it made on the
\* target while building it
ToolifyAgentsDuck(target) ==
  IF target = "relay"
  THEN [kind |-> "return", tools |-> RelayTools, calls |-> 0]
  ELSE [kind |-> "return", tools |-> AgentTools, calls |-> 1]
ToolifyAgents(target) ==
  CASE target = "relay" -> [kind |-> "return", tools |-> RelayTools, calls |-> 0]
    [] target = "service" -> [kind |-> "return", tools |-> AgentTools, calls |-> 0]
    [] target = "client" -> [kind |-> "return", tools |-> AgentTools, calls |-> 0]
    [] OTHER -> [kind |-> "throw", tools |-> <<>>, calls |-> 0]

\* a history entry: its protocol role and the text getContent extracts from
\* it (None: nothing to extract)
HistoryEntries ==
  {[role |-> "agent", text |-> Some("hello")], [role |-> "user", text |-> Some("hi")],
   [role |-> "agent", text |-> Some("{}")], [role |-> "user", text |-> None],
   [role |-> "user", text |-> Some("")], [role |-> "user", text |-> Some("[]")],
   [role |-> "user", text |-> Some("null")], [role |-> "agent", text |-> Some("undefined")]}

GetContent(message) == message.text

\* the callback of history.map: undefined (None) for an entry to drop
HistoryMapLoose(message) ==
  LET content == GetContent(message)
  IN  IF content = None \/ content[1] = ""
      THEN None
      ELSE Some(Message(IF message.role = "agent" THEN "assistant" ELSE "user",
                        Text(content[1])))
HistoryMap(message) ==
  LET content == GetContent(message)
  IN  IF content = None \/ content[1] \in {"", "{}", "[]", "null", "undefined"}
      THEN None
      ELSE Some(Message(IF message.role = "agent" THEN "assistant" ELSE "user",
                        Text(content[1])))

\* task?.history?.map(...).filter(message => message !== undefined)
RECURSIVE MapFilter(_)
MapFilter(h) ==
  IF h = <<>> THEN <<>> ELSE HistoryMap(Head(h)) \o MapFilter(Tail(h))

HistoricalMessages(task) ==
  IF task = None \/ task[1].history = None THEN <<>>
  ELSE MapFilter(task[1].history[1])

\* createSession(messages, task, args, content, agents): the new array, and
\* the two arrays it was handed as they are afterwards
CreateSessionContentFirst(messages, task, args, content, agents) ==
  [session |->
     messages
       \o (IF content # None /\ content[1] # "" THEN <<Message("user", Text(content[1]))>> ELSE <<>>)
       \o HistoricalMessages(task)
       \o (IF args # None THEN <<Message("system", JsonStringify(args[1]))>> ELSE <<>>)
       \o (IF agents THEN <<AgentsMessage>> ELSE <<>>),
   messages |-> messages, task |-> task]
CreateSession(messages, task, args, content, agents) ==
  LET historicalMessages == HistoricalMessages(task)
      argumentsMessage ==
        IF args # None THEN <<Message("system", JsonStringify(args[1]))>> ELSE <<>>
      contentMessage ==
        IF content # None /\ content[1] # "" THEN <<Message("user", Text(content[1]))>>
        ELSE <<>>
      agentsMessage == IF agents THEN <<AgentsMessage>> ELSE <<>>
  IN  [session |-> messages \o historicalMessages \o argumentsMessage
                     \o contentMessage \o agentsMessage,
       messages |-> messages, task |-> task]

\* settings.flag ? value : undefined
IncludeAlways(flag, v) == v
IncludeIf(flag, v) == IF Truthy(flag) THEN v ELSE None

\* the one call on the model client: create(...) without tools, or
\* runTools(...) with the bridge's list; { ...body, messages [, tools] }
IssueRequestBare(body, messages, agentList, settings) ==
  IF Len(agentList) = 0 \/ Truthy(settings.disableAgents)
  THEN [DefaultBody EXCEPT !.messages = messages] @@ [api |-> "create"]
  ELSE [DefaultBody EXCEPT !.messages = messages, !.tools = Some(agentList)]
         @@ [api |-> "runTools"]
IssueRequest(body, messages, agentList, settings) ==
  IF Len(agentList) = 0 \/ Truthy(settings.disableAgents)
  THEN [body EXCEPT !.messages = messages] @@ [api |-> "create"]
  ELSE [body EXCEPT !.messages = messages, !.tools = Some(agentList)]
         @@ [api |-> "runTools"]

NoTools == [kind |-> "none", tools |-> <<>>, calls |-> 0]

\* the step function from its call to its first await: settings, tool list,
\* session, request. A throw of toolifyAgents rejects the step's promise.
AiInvoke ==
  /\ aipc = "ready"
  /\ LET settings == ResolveSettings(stepArgs.settings)
         body == IF stepArgs.body = None THEN DefaultBody ELSE stepArgs.body[1]
         t == IF stepArgs.agents # "undefined" THEN ToolifyAgents(stepArgs.agents)
              ELSE [kind |-> "return", tools |-> <<>>, calls |-> 0]
     IN  /\ toolOutcome' = t
         /\ targetCalls' = targetCalls + t.calls
         /\ IF t.kind # "return"
            THEN /\ aipc' = "failed"
                 /\ UNCHANGED <<stepArgs, params, requests>>
            ELSE LET s == CreateSession(body.messages,
                                        IncludeIf(settings.includeHistory, params.task),
                                        IncludeIf(settings.includeArgs, Some(params.args)),
                                        IncludeIf(settings.includeContent, Some(params.content)),
                                        Len(t.tools) > 0)
                 IN  /\ aipc' = "awaiting"
                     /\ requests' = Append(requests,
                                           IssueRequest(body, s.session, t.tools, settings))
                     /\ stepArgs' = IF stepArgs.body = None THEN stepArgs
                                    ELSE [stepArgs EXCEPT !.body[1].messages = s.messages]
                     /\ params' = IF s.task = None THEN params
                                  ELSE [params EXCEPT !.task = s.task]
  /\ UNCHANGED <<given, completion, output, adapterVars, builderVars>>

\* a tool handler runs inside the client's runner and calls the peer handle
ToolCall ==
  /\ aipc = "awaiting"
  /\ requests[Len(requests)].api = "runTools"
  /\ targetCalls < MaxToolCalls
  /\ targetCalls' = targetCalls + 1
  /\ UNCHANGED <<stepArgs, params, given, aipc, toolOutcome, requests, completion,
                 output, adapterVars, builderVars>>

\* the awaited completion arrives: the step returns { parts, args }
ModelReply(c) ==
  /\ aipc = "awaiting"
  /\ aipc' = "returned"
  /\ completion' = Some(c)
  /\ output' = Some(AiStepOutput(c))
  /\ UNCHANGED <<stepArgs, params, given, toolOutcome, requests, targetCalls,
                 adapterVars, builderVars>>

\* the client's call rejects: nothing catches it, the step's promise rejects
ModelFail ==
  /\ aipc = "awaiting"
  /\ aipc' = "failed"
  /\ UNCHANGED <<stepArgs, params, given, toolOutcome, requests, targetCalls,
                 completion, output, adapterVars, builderVars>>

\* the forwarded arguments, contents and tasks a step may be called with
StepArgSeqs == {<<>>, <<"1", "2", "3">>, <<"completionHello">>}
Contents == {"", "Hi"}
SomeHistory ==
  <<[role |-> "agent", text |-> Some("hello")], [role |-> "user", text |-> Some("{}")],
    [role |-> "user", text |-> Some("hi")]>>
AiTasks == {None, Some([history |-> None]), Some([history |-> Some(SomeHistory)])}
HistoryTasks ==
  {None} \cup {Some([history |-> Some(h)]) : h \in SeqsUpTo(HistoryEntries, MaxHist)}

AiInitWith(S, A, B, T) ==
  /\ stepArgs \in [settings : S, agents : A, body : B]
  /\ params \in [args : StepArgSeqs, content : Contents, task : T]
  /\ given = [messages |-> IF stepArgs.body = None THEN <<>> ELSE stepArgs.body[1].messages,
              task |-> params.task]
  /\ aipc = "ready"
  /\ toolOutcome = NoTools
  /\ requests = <<>>
  /\ targetCalls = 0
  /\ completion = None
  /\ output = None

\* no AI step is under way
AiIdle ==
  /\ stepArgs = [settings |-> None, agents |-> "undefined", body |-> None]
  /\ params = [args |-> <<>>, content |-> "", task |-> None]
  /\ given = [messages |-> <<>>, task |-> None]
  /\ aipc = "idle"
  /\ toolOutcome = NoTools
  /\ requests = <<>>
  /\ targetCalls = 0
  /\ completion = None
  /\ output = None

NextAi ==
  \/ AiInvoke
  \/ ToolCall
  \/ \E c \in Completions : ModelReply(c)
  \/ ModelFail

InitWith(ex, sl, c) ==
  /\ executor \in ex
  /\ slots = sl
  /\ cap = c
  /\ pc = [i \in Inv |-> "idle"]
  /\ bus = [i \in Inv |-> 0]
  /\ nextBus = 0
  /\ attached = [b \in Buses |-> {}]
  /\ queue = [i \in Inv |-> NewQueue]
  /\ listening = [i \in Inv |-> FALSE]
  /\ exec = [i \in Inv |-> "none"]
  /\ execBus = [i \in Inv |-> 0]
  /\ ti = [i \in Inv |-> 0]
  /\ cancelledTasks = {}
  /\ hookPending = [i \in Inv |-> FALSE]
  /\ cancelCalls = [i \in Inv |-> <<>>]
  /\ published = [b \in Buses |-> <<>>]
  /\ finAt = [b \in Buses |-> -1]
  /\ yielded = [i \in Inv |-> <<>>]
  /\ sigPre = [i \in Inv |-> 0]
  /\ sigPost = [i \in Inv |-> 0]
  /\ settledAt = [i \in Inv |-> -1]
  /\ syncAt = [i \in Inv |-> -1]

\* the adapter is not in use
NoAdapter == InitWith({"free"}, {}, [pub |-> 0, sync |-> 0, cancel |-> 0])

Init ==
  /\ InitWith({"test", "free"}, {1},
              [pub |-> MaxPub, sync |-> MaxSync, cancel |-> MaxCancel])
  /\ BuilderInit
  /\ AiIdle

InitTwo ==
  /\ InitWith({"test", "free"}, Inv,
              [pub |-> MaxPubTwo, sync |-> MaxSyncTwo, cancel |-> MaxCancelTwo])
  /\ BuilderInit
  /\ AiIdle

InitBuilder ==
  /\ InitWith({"free"}, {}, [pub |-> 0, sync |-> 0, cancel |-> 0])
  /\ BuilderInit
  /\ AiIdle

\* one invocation of an AI step made by aiStep(stepArgs), any arguments
InitAi ==
  /\ NoAdapter
  /\ BuilderInit
  /\ AiInitWith(SettingsBundles, AgentTargets, Bodies, AiTasks)

\* the same with the settings left to their defaults, any task history
InitHistory ==
  /\ NoAdapter
  /\ BuilderInit
  /\ AiInitWith({None}, {"undefined", "relay"}, Bodies, HistoryTasks)

Next ==
  \/ \E i \in Inv : Call(i)
  \/ \E i \in Inv : Start(i)
  \/ \E i \in Inv : Pull(i)
  \/ \E i \in Inv : Wake(i)
  \/ \E i \in Inv : Join(i)
  \/ \E i \in Inv : Cancel(i)
  \/ \E i \in Inv : TestStep(i)
  \/ \E i \in Inv, sh \in FreeShapes : FreePublish(i, sh)
  \/ \E i \in Inv : FreeFinished(i)
  \/ \E i \in Inv, how \in {"fulfilled", "rejected"} : FreeSettle(i, how)
  \/ \E i \in Inv : FreeHook(i)

\* One invocation of the engine, any consumer, either executor
Spec == Init /\ [][Next]_vars

\* Two invocations of the same engine, interleaved
SpecTwo == InitTwo /\ [][Next]_vars

\* The event loop runs every continuation that is ready, and the consumer
\* is a for-await loop: it pulls again after every event it receives.
Fairness ==
  /\ WF_vars(\E i \in Inv : Start(i))
  /\ WF_vars(\E i \in Inv : Pull(i))
  /\ WF_vars(\E i \in Inv : Wake(i))
  /\ WF_vars(\E i \in Inv : Join(i))

FairSpec == Spec /\ Fairness

\* The executor is scheduled fairly as well: TestExecutor's timers fire, and
\* a cancelTask that has been called runs to its end.
ExecutorFairness ==
  /\ WF_vars(\E i \in Inv : TestStep(i))
  /\ WF_vars(\E i \in Inv : FreeHook(i))

FairSpecBoth == Spec /\ Fairness /\ ExecutorFairness

\* Builders made and extended in any order, and one agent invocation
SpecBuilder == InitBuilder /\ [][NextBuilder]_vars

\* One AI step invocation, over every settings bundle and peer handle
SpecAi == InitAi /\ [][NextAi]_vars

\* One AI step invocation with default settings, over the task histories
SpecHistory == InitHistory /\ [][NextAi]_vars

\* ------------------------------------------------------------- properties
IsPrefix(s, t) == Len(s) <= Len(t) /\ s = SubSeq(t, 1, Len(s))

ShapesOf(s) == [k \in 1..Len(s) |-> Shape(s[k])]

\* the event sequence of invocation i is exhausted
Ended(i) == pc[i] \in {"joining", "done", "failed"}

\* what invocation i's bus had published when its queue closed (all of it
\* while the queue is open)
UpToClose(i) ==
  IF bus[i] = 0 THEN <<>>
  ELSE IF queue[i].closedAt < 0 THEN published[bus[i]]
       ELSE SubSeq(published[bus[i]], 1, queue[i].closedAt)

\* s up to and including its first terminal event
CutAtTerminal(s) ==
  IF \E k \in 1..Len(s) : Terminal(s[k])
  THEN SubSeq(s, 1, CHOOSE k \in 1..Len(s) :
                      Terminal(s[k]) /\ \A j \in 1..(k - 1) : ~Terminal(s[j]))
  ELSE s

\* the drained sequence of invocation i
Drained(i) == CutAtTerminal(UpToClose(i))

FourEvents == <<Submitted, Working, Artifact, Completed>>

C3_RejectionSurfaces == \A i \in Inv : (exec[i] = "rejected") ~> (pc[i] = "failed")

\* the bus was marked finished, or a terminal event was consumed
FullyDrainable(i) ==
  /\ bus[i] # 0
  /\ \/ finAt[bus[i]] >= 0
     \/ \E k \in 1..Len(yielded[i]) : Terminal(yielded[i][k])

C5_EverySignalHeard ==
  \A i \in Inv : Len(cancelCalls[i]) = sigPre[i] + sigPost[i]

\* C5, amended: every cancel signal fired once the engine body has started
\* (from the consumer's first pull on) calls executor.cancelTask, with the
\* invocation's task id and the bus execute publishes on; the adapter does
\* not wait for the hook.
C5_CancelRelayed ==
  \A i \in Inv :
    /\ Len(cancelCalls[i]) = sigPost[i]
    /\ \A k \in 1..Len(cancelCalls[i]) :
         /\ cancelCalls[i][k].task = TaskIdOf(i)
         /\ cancelCalls[i][k].bus = execBus[i]
         /\ cancelCalls[i][k].bus # 0

\* the invocation completed while the executor's cancelTask was still running
C5_Witness == sigPost[1] > 0 /\ hookPending[1] /\ pc[1] = "done"

Range(s) == {s[k] : k \in 1..Len(s)}

\* C6: every event yielded was published by the executor on the invocation's
\* bus; a yielded sequence ends with the canceled status only if the executor
\* published it.
C6_NothingSynthesized ==
  \A i \in Inv :
    \A k \in 1..Len(yielded[i]) :
      /\ bus[i] # 0
      /\ yielded[i][k] \in Range(published[bus[i]])
      /\ yielded[i][k].by = i

\* cancellation was signalled and ignored: the sequence ran to completed
C6_Witness ==
  /\ sigPost[1] > 0
  /\ pc[1] = "done"
  /\ yielded[1] # <<>>
  /\ Shape(yielded[1][Len(yielded[1])]) = Completed

\* C7: two invocations of one engine have distinct buses, never yield each
\* other's events, are cancelled only by their own signal and are ended only
\* through their own bus.
C7_Isolated ==
  /\ (bus[1] # 0 /\ bus[2] # 0) => bus[1] # bus[2]
  /\ \A i \in Inv :
       /\ execBus[i] = bus[i]
       /\ \A k \in 1..Len(yielded[i]) : yielded[i][k].by = i
       /\ Len(cancelCalls[i]) <= sigPost[i]
       /\ \A k \in 1..Len(cancelCalls[i]) : cancelCalls[i][k].bus = bus[i]
       /\ bus[i] # 0 => \A e \in Range(published[bus[i]]) : e.by = i
       /\ queue[i].stopped =>
            \/ finAt[bus[i]] >= 0
            \/ \E k \in 1..Len(yielded[i]) : Terminal(yielded[i][k])

\* one invocation was cancelled and is done while the other still waits
C7_Witness ==
  /\ pc[1] = "done"
  /\ sigPost[1] = 1
  /\ yielded[1] # <<>>
  /\ pc[2] = "waiting"
  /\ ~queue[2].stopped
  /\ cancelCalls[2] = <<>>

\* the step list of builder b
StepsOf(b) == arrays[builders[b].steps]

\* C8: every builder's step list is exactly the steps added along its own
\* derivation chain, in call order, whatever was added to any builder since;
\* a builder made by addStep or ai has its parent's client and agents.
C8_BuildersImmutable ==
  \A b \in 1..Len(builders) :
    /\ StepsOf(b) = chain[b].steps
    /\ chain[b].parent # 0 =>
         /\ builders[b].client = builders[chain[b].parent].client
         /\ builders[b].agents = builders[chain[b].parent].agents
         /\ Len(StepsOf(b)) = Len(StepsOf(chain[b].parent)) + 1
         /\ SubSeq(StepsOf(b), 1, Len(StepsOf(b)) - 1) = StepsOf(chain[b].parent)

\* a builder holding one step was extended twice, with different steps
C8_Witness ==
  /\ Len(builders) = 4
  /\ chain[3].parent = 2
  /\ chain[4].parent = 2
  /\ Len(StepsOf(2)) = 1
  /\ StepsOf(3) # StepsOf(4)

\* C9: the steps of one invocation start in the declared order, each at most
\* once, the next only after the output of the one before; no two are in
\* progress together.
C9_StepsInOrder ==
  run.status # "none" =>
    /\ Len(run.log) <= Len(chain[run.b].steps)
    /\ \A k \in 1..Len(run.log) :
         /\ run.log[k].idx = k
         /\ run.log[k].step = chain[run.b].steps[k]
    /\ Cardinality(run.active) <= 1
    /\ Len(run.outs) <= Len(run.log)
    /\ Len(run.log) <= Len(run.outs) + 1
    /\ Len(run.log) = Len(run.outs) + 1 => (run.active # {} \/ run.status = "failed")

\* a pipeline of two different steps ran to its end
C9_Witness ==
  /\ run.status = "completed"
  /\ Len(run.log) = 2
  /\ run.log[1].step # run.log[2].step

\* C10: the first step receives no forwarded arguments; the step after one
\* that returned {parts, args} receives exactly those args; the step after an
\* AI step receives a one-element sequence holding that step's completion.
C10_ArgsThreaded ==
  \A k \in 1..Len(run.log) :
    /\ k = 1 => run.log[k].args = <<>>
    /\ (k > 1 /\ run.outs[k - 1].fwd) => run.log[k].args = run.outs[k - 1].args
    /\ (k > 1 /\ run.log[k - 1].step.fn = "ai") =>
         /\ Len(run.log[k].args) = 1
         /\ run.log[k].args[1] \in Completions
         /\ run.outs[k - 1] = AiStepOutput(run.log[k].args[1])

\* the step after an AI step was called with the completion
C10_Witness ==
  /\ Len(run.log) = 2
  /\ run.log[1].step.fn = "ai"
  /\ run.log[2].args = <<"completionHello">>

\* the step made by .ai("You are a helpful assistant.") without peer agents
\* is called with the content "Hi"
HelloScenario ==
  /\ stepArgs.body = Some(BodyOfPrompt("You are a helpful assistant."))
  /\ stepArgs.agents = "undefined"
  /\ stepArgs.settings = Some([DefaultSettings EXCEPT !.disableAgents = "undefined"])
  /\ params.content = "Hi"

\* C11: an AI step that returns, returns {parts, args}: parts is the content
\* of the first choice's message of the completion the client resolved with,
\* and empty when that content is absent; args has exactly one element, that
\* completion. In the "Hello!" scenario the parts are the text "Hello!".
C11_OutputShape ==
  aipc = "returned" =>
    /\ completion # None
    /\ output # None
    /\ output[1].fwd
    /\ Len(output[1].args) = 1
    /\ output[1].args[1] = completion[1]
    /\ output[1].parts = IF ContentOf(completion[1]) = "null" THEN <<>>
                         ELSE <<ContentOf(completion[1])>>
    /\ (HelloScenario /\ completion[1] = "completionHello") => output[1].parts = <<"Hello!">>

\* the scenario ran to its end
C11_Witness ==
  /\ aipc = "returned"
  /\ HelloScenario
  /\ completion = Some("completionHello")
  /\ output[1].parts = <<"Hello!">>
  /\ requests[1].api = "create"

\* the flag as the caller supplied it ("undefined": not supplied)
Supplied(name) ==
  IF stepArgs.settings = None THEN "undefined" ELSE stepArgs.settings[1][name]

\* the messages of the request the step issued
SessionSent == requests[1].messages

\* C12: every flag the caller did not supply behaves as its default: the
\* history, the forwarded arguments and the content are in the session unless
\* their flag is explicitly false, and the tools are used unless disableAgents
\* is explicitly true.
C12_UnsetFlagsDefault ==
  requests # <<>> =>
    /\ (Supplied("includeHistory") # "false") =>
         \A m \in Range(HistoricalMessages(given.task)) : m \in Range(SessionSent)
    /\ (Supplied("includeArgs") # "false" /\ params.args # <<>>) =>
         Message("system", JsonStringify(params.args)) \in Range(SessionSent)
    /\ (Supplied("includeContent") # "false" /\ params.content # "") =>
         Message("user", Text(params.content)) \in Range(SessionSent)
    /\ (Supplied("disableAgents") # "true" /\ toolOutcome.tools # <<>>) =>
         requests[1].api = "runTools"

\* C13: toolifyAgents goes by the run-time type of its target: a relay gives
\* the seven relay tools, an in-process agent or a client handle the four
\* agent tools, and anything else makes the call itself throw (it neither
\* returns nor hands back a rejecting promise), with no call made on the
\* target and no request issued.
C13_DispatchByType ==
  toolOutcome.kind # "none" =>
    /\ stepArgs.agents = "relay" =>
         /\ toolOutcome.kind = "return"
         /\ Len(toolOutcome.tools) = 7
         /\ Range(toolOutcome.tools) =
              {"relay-message-send", "relay-tasks-get", "relay-tasks-cancel",
               "relay-agents-get-card-all", "relay-agents-get-ids",
               "relay-agents-search", "relay-agents-get-card"}
    /\ stepArgs.agents \in {"service", "client"} =>
         /\ toolOutcome.kind = "return"
         /\ Len(toolOutcome.tools) = 4
         /\ Range(toolOutcome.tools) =
              {"message-send", "get-agent-card", "tasks-get", "tasks-cancel"}
    /\ stepArgs.agents = "object" =>
         /\ toolOutcome.kind = "throw"
         /\ toolOutcome.tools = <<>>
         /\ toolOutcome.calls = 0
         /\ targetCalls = 0
         /\ requests = <<>>
         /\ aipc = "failed"
    /\ toolOutcome.calls = 0

\* a step configured with a plain object was invoked
C13_Witness ==
  /\ stepArgs.agents = "object"
  /\ toolOutcome.kind = "throw"
  /\ aipc = "failed"

\* the request body the step works with: the caller's, or the default one
BodyUsed == IF stepArgs.body = None THEN DefaultBody ELSE stepArgs.body[1]

\* the original statement of C14: every invocation that has come to its end
\* issued exactly one request, and every body field but messages reached the
\* client as the caller supplied it.
C14_ExactlyOnePassThrough ==
  aipc \in {"returned", "failed"} =>
    /\ Len(requests) = 1
    /\ requests[1].model = BodyUsed.model
    /\ requests[1].temperature = BodyUsed.temperature
    /\ BodyUsed.tools # None => requests[1].tools = BodyUsed.tools

\* C14: an invocation issues at most one request, and exactly one unless
\* toolifyAgents threw (then none); it is a plain create when the tool list
\* is empty or disableAgents is true and a tool run with the bridge's list
\* otherwise; the request is the body with messages replaced by the session
\* (which begins with the body's messages) and, in a tool run, tools replaced
\* by the bridge's list; a failure of the call is not followed by another.
C14_OneRequest ==
  /\ Len(requests) <= 1
  /\ aipc \in {"awaiting", "returned"} => Len(requests) = 1
  /\ aipc = "failed" => (Len(requests) = 1 <=> toolOutcome.kind = "return")
  /\ aipc = "ready" => requests = <<>>
  /\ requests # <<>> =>
       LET q == requests[1]
           plain == toolOutcome.tools = <<>>
                      \/ ResolveSettings(stepArgs.settings).disableAgents = "true"
       IN  /\ q.api = IF plain THEN "create" ELSE "runTools"
           /\ q.tools = IF plain THEN BodyUsed.tools ELSE Some(toolOutcome.tools)
           /\ q.model = BodyUsed.model
           /\ q.temperature = BodyUsed.temperature
           /\ IsPrefix(given.messages, q.messages)

\* a tool run on the caller's full body failed after a tool was called
C14_Witness ==
  /\ aipc = "failed"
  /\ Len(requests) = 1
  /\ requests[1].api = "runTools"
  /\ stepArgs.body = Some(FullBody)
  /\ requests[1].temperature = "0.7"
  /\ targetCalls = 1

AllExplicitlyFalse ==
  /\ Supplied("includeHistory") = "false"
  /\ Supplied("includeArgs") = "false"
  /\ Supplied("includeContent") = "false"

\* the original statement of C15: with the three inclusion flags false the
\* session is exactly the supplied prior messages, whatever the peer agents.
C15_ExactlyPrior ==
  (requests # <<>> /\ AllExplicitlyFalse) => SessionSent = given.messages

\* C15: with the three inclusion flags false, and whatever the task, the
\* forwarded arguments and the content, the session is the supplied prior
\* messages, followed by the tools message exactly when the bridge's tool list
\* is not empty; without peer agents nothing is added.
C15_PriorAndToolsOnly ==
  (requests # <<>> /\ AllExplicitlyFalse) =>
    /\ SessionSent = given.messages
                       \o (IF toolOutcome.tools # <<>> THEN <<AgentsMessage>> ELSE <<>>)
    /\ stepArgs.agents = "undefined" => SessionSent = given.messages

\* nothing was added although there were a history, arguments and a content
C15_Witness ==
  /\ requests # <<>>
  /\ AllExplicitlyFalse
  /\ stepArgs.agents = "undefined"
  /\ given.task = Some([history |-> Some(SomeHistory)])
  /\ params.args # <<>>
  /\ params.content = "Hi"
  /\ Len(given.messages) = 2
  /\ SessionSent = given.messages

\* C16: the session is the prior messages, then the history-derived
\* messages, then at most one arguments message, then at most one content
\* message, then at most one tools message, in this order; the prior-message
\* list and the task are as they were before the call.
C16_BlockOrder ==
  requests # <<>> =>
    /\ \E a \in {<<>>, <<Message("system", JsonStringify(params.args))>>},
          c \in {<<>>, <<Message("user", Text(params.content))>>},
          g \in {<<>>, <<AgentsMessage>>},
          h \in {<<>>, HistoricalMessages(given.task)} :
         SessionSent = given.messages \o h \o a \o c \o g
    /\ BodyUsed.messages = given.messages
    /\ params.task = given.task

\* a session with all five blocks
C16_Witness ==
  /\ requests # <<>>
  /\ Len(given.messages) = 2
  /\ Len(SessionSent) = 2 + 2 + 3
  /\ SessionSent[5] = Message("system", JsonStringify(<<"1", "2", "3">>))
  /\ SessionSent[6] = Message("user", Text("Hi"))
  /\ SessionSent[7] = AgentsMessage

\* an entry whose extracted text is absent or one of the empty equivalents
Droppable(e) == e.text = None \/ e.text[1] \in {"", "{}", "[]", "null", "undefined"}

KeptEntries(task) ==
  IF task = None \/ task[1].history = None THEN <<>>
  ELSE SelectSeq(task[1].history[1], LAMBDA e : ~Droppable(e))

\* C17: with the task supplied, the messages between the prior messages and
\* the arguments message are exactly the history entries that are not
\* droppable, in history order, an "agent" entry as assistant and any other
\* as user; a history of droppable entries only gives none.
C17_HistoryFiltered ==
  requests # <<>> =>
    LET kept == KeptEntries(given.task)
        n == Len(given.messages)
    IN  /\ Len(SessionSent) >= n + Len(kept) + 1
        /\ \A k \in 1..Len(kept) :
             SessionSent[n + k] =
               Message(IF kept[k].role = "agent" THEN "assistant" ELSE "user",
                       Text(kept[k].text[1]))
        /\ SessionSent[n + Len(kept) + 1] = Message("system", JsonStringify(params.args))
        /\ Len(SessionSent) = n + Len(kept) + 1
                                + (IF params.content # "" THEN 1 ELSE 0)
                                + (IF toolOutcome.tools # <<>> THEN 1 ELSE 0)

\* of two history entries the droppable first one was left out
C17_Witness ==
  /\ requests # <<>>
  /\ given.task = Some([history |-> Some(<<[role |-> "agent", text |-> Some("undefined")],
                                            [role |-> "user", text |-> Some("hi")]>>)])
  /\ given.messages = <<>>
  /\ SessionSent[1] = Message("user", Text("hi"))
  /\ SessionSent[2].role = "system"

\* how often message m occurs in the sequence s
Count(s, m) == Cardinality({k \in 1..Len(s) : s[k] = m})

\* C18: the session holds the system message with the serialized forwarded
\* arguments exactly once if argument inclusion is enabled and the forwarded
\* arguments are not empty, and not at all otherwise (so not for the first
\* step of a pipeline, whose forwarded arguments are empty).
C18_ArgsMessageIffNonEmpty ==
  requests # <<>> =>
    Count(SessionSent, Message("system", JsonStringify(params.args))) =
      IF ResolveSettings(stepArgs.settings).includeArgs = "true" /\ params.args # <<>>
      THEN 1 ELSE 0

\* C19: the session ends with the message that tells the model it can call
\* agents exactly when the request issued carries the bridge's tool list.
C19_ToolsToldIffCarried ==
  requests # <<>> =>
    (AgentsMessage \in Range(SessionSent)
       <=> (requests[1].api = "runTools" /\ toolOutcome.tools # <<>>
              /\ requests[1].tools = Some(toolOutcome.tools)))

\* the events invocation i's executor published before the first pull
\* reached the queue: those of the synchronous part of execute
SyncEvents(i) == SubSeq(published[bus[i]], 1, syncAt[i])

C21_SettledThenTerminates ==
  \A i \in Inv : (exec[i] \in {"fulfilled", "rejected"}) ~> (pc[i] \in {"done", "failed"})

====
